---------------------------- MODULE Spec2Model ----------------------------
(***************************************************************************)
(* A model of dstar_image_prep.py: the budgeted JPEG encoder               *)
(* (save_jpeg_under_limit), the size fitter (resize_to_fit), and the two   *)
(* entry points (main, run_convert) with the per-file pipeline             *)
(* (process_one, build_output_name).                                       *)
(*                                                                         *)
(* Three specifications share the module, and Spec is the three as one:    *)
(*   EncSpec / EncLive  one call of save_jpeg_under_limit, one loop        *)
(*                      iteration per step;                                *)
(*   FitSpec            one call of resize_to_fit;                         *)
(*   RunSpec            one run of main or run_convert.                    *)
(* Each leaves the variables of the others untouched.                      *)
(***************************************************************************)
EXTENDS Integers, Sequences, FiniteSets, TLC

VARIABLES
    budget,     \* save_jpeg_under_limit's arguments max_kb, quality_start, quality_min, quality_step
    enc,        \* the JPEG encoder seen from the loop: quality -> bytes img.save() leaves at out_path
    q,          \* the loop variable q
    encPc,      \* "idle" | "loop" | "done" | "error"
    disk,       \* the file at out_path: NoFile, or [quality, size, trial]
    trials,     \* the img.save() calls made so far, in order: <<[quality, size], ...>>
    result,     \* NoResult, or the returned tuple as [quality, size, exit]
    fitIn,      \* resize_to_fit's arguments: the source's size, the target size, the mode
    fitPc,      \* "idle" | "call" | "done"
    fitOut,     \* what resize_to_fit did: [status, new_w, new_h, left, top, out_w, out_h]
    cfg,        \* the run's arguments: [entry, sizeArg, max_kb, mode, prefix, suffix]
    input,      \* what is at the input path: [kind, names], and the size its images decode to
    runPc,      \* "idle" | "parse" | "mkdir" | "dispatch" | "process" | "done" | "failed"
    size,       \* the target size as a tuple: args.size, or run_convert's size argument
    outDirCreated,  \* ensure_output_dir has run
    opened,     \* the input files Image.open was called on
    todo,       \* the files the loop over `files` has still to process, in order
    outputs,    \* the files written to the output directory: name -> [from, nth]
    writes,     \* the number of save_jpeg_under_limit calls that wrote a file
    err         \* the exception that ended the run, or "none"

encVars == <<budget, enc, q, encPc, disk, trials, result>>

fitVars == <<fitIn, fitPc, fitOut>>

runVars == <<cfg, input, runPc, size, outDirCreated, opened, todo, outputs, writes, err>>

vars == <<encVars, fitVars, runVars>>

(***************************************************************************)
(* Bounds of the model.                                                    *)
(***************************************************************************)
MaxQuality == 6
MaxStep == 3
MaxKb == 2
MaxDim == 8
MaxFiles == 3

(***************************************************************************)
(* Program constants.                                                      *)
(***************************************************************************)
BytesPerKb == 1024
DefaultMaxKb == 200
DefaultQualityStart == 88
DefaultQualityMin == 35
DefaultQualityStep == 3

\* The fitter's variables while another specification runs.
NoFitIn == [src_w |-> 0, src_h |-> 0, target_w |-> 0, target_h |-> 0, mode |-> "none"]
NoFitOut == [status |-> "none", new_w |-> 0, new_h |-> 0, left |-> 0, top |-> 0,
             out_w |-> 0, out_h |-> 0]

FitIdle ==
    /\ fitIn = NoFitIn
    /\ fitPc = "idle"
    /\ fitOut = NoFitOut

\* The run's variables while another specification runs.
RunIdle ==
    /\ cfg = <<>>
    /\ input = <<>>
    /\ runPc = "idle"
    /\ size = <<0, 0>>
    /\ outDirCreated = FALSE
    /\ opened = {}
    /\ todo = <<>>
    /\ outputs = <<>>
    /\ writes = 0
    /\ err = "none"

(***************************************************************************)
(* The budgeted encoder: save_jpeg_under_limit.                            *)
(***************************************************************************)
NoFile == [quality |-> 0, size |-> 0, trial |-> -1]
NoResult == [quality |-> 0, size |-> 0, exit |-> "none"]

\* max_bytes = max_kb * 1024
MaxBytes(kb) == kb * BytesPerKb

\* The sizes an encoder may produce around a budget of kb kilobytes: one byte
\* under the ceiling, exactly the ceiling, one byte over it.
SizesAround(kb) == {MaxBytes(kb) - 1, MaxBytes(kb), MaxBytes(kb) + 1}

\* An encoder of the default run: every quality above t is one byte over the
\* default ceiling, every quality up to t is exactly at it.
ThresholdEnc(t) ==
    [x \in DefaultQualityMin..DefaultQualityStart |->
        IF x > t THEN MaxBytes(DefaultMaxKb) + 1 ELSE MaxBytes(DefaultMaxKb)]

DefaultBudget ==
    [max_kb |-> DefaultMaxKb, quality_start |-> DefaultQualityStart,
     quality_min |-> DefaultQualityMin, quality_step |-> DefaultQualityStep]

\* A file some earlier run left at out_path (process_one overwrites outputs).
StaleFile == [quality |-> 0, size |-> 1, trial |-> 0]

EncInit ==
    /\ \/ /\ budget \in [max_kb : 1..MaxKb, quality_start : 1..MaxQuality,
                         quality_min : 1..MaxQuality, quality_step : 1..MaxStep]
          /\ enc \in [budget.quality_min..budget.quality_start -> SizesAround(budget.max_kb)]
       \/ /\ budget = DefaultBudget
          /\ enc \in {ThresholdEnc(t) : t \in (DefaultQualityMin - 1)..DefaultQualityStart}
    /\ q = budget.quality_start
    /\ encPc = "loop"
    /\ disk \in {NoFile, StaleFile}
    /\ trials = <<>>
    /\ result = NoResult
    /\ FitIdle
    /\ RunIdle

\* if size_bytes <= max_bytes
FitsMutStrict(size_bytes, max_bytes) == size_bytes < max_bytes
Fits(size_bytes, max_bytes) == size_bytes <= max_bytes

\* q -= quality_step
NextQualityMutStuck(qq, step) == qq - (step - 1)
NextQuality(qq, step) == qq - step

\* return q + quality_step, size_bytes
FloorQualityMutRaw(qq, step) == qq
FloorQuality(qq, step) == qq + step

\* One iteration of the while loop: img.save at q, stat, compare, return or decrement.
Trial ==
    /\ encPc = "loop"
    /\ q >= budget.quality_min
    /\ LET size_bytes == enc[q] IN
        /\ disk' = [quality |-> q, size |-> size_bytes, trial |-> Len(trials) + 1]
        /\ trials' = Append(trials, [quality |-> q, size |-> size_bytes])
        /\ IF Fits(size_bytes, MaxBytes(budget.max_kb))
           THEN /\ result' = [quality |-> q, size |-> size_bytes, exit |-> "fit"]
                /\ encPc' = "done"
                /\ q' = q
           ELSE /\ q' = NextQuality(q, budget.quality_step)
                /\ UNCHANGED <<result, encPc>>
    /\ UNCHANGED <<budget, enc, fitVars, runVars>>

\* The loop condition fails: stat out_path once more and return q + quality_step.
\* With no file at out_path (no trial was made and none was there before) stat raises.
FloorExit ==
    /\ encPc = "loop"
    /\ q < budget.quality_min
    /\ IF disk = NoFile
       THEN /\ encPc' = "error"
            /\ UNCHANGED result
       ELSE /\ result' = [quality |-> FloorQuality(q, budget.quality_step),
                          size |-> disk.size, exit |-> "floor"]
            /\ encPc' = "done"
    /\ UNCHANGED <<budget, enc, q, disk, trials, fitVars, runVars>>

EncNext == Trial \/ FloorExit

EncSpec == EncInit /\ [][EncNext]_vars

\* The call is straight-line synchronous code: an iteration that can run does run.
EncLive == EncSpec /\ WF_vars(EncNext)

\* The encoder's variables while another specification runs.
EncIdle ==
    /\ budget = DefaultBudget
    /\ enc = <<>>
    /\ q = 0
    /\ encPc = "idle"
    /\ disk = NoFile
    /\ trials = <<>>
    /\ result = NoResult

(***************************************************************************)
(* Claims about the budgeted encoder.                                      *)
(***************************************************************************)
StartAtLeastMin == budget.quality_start >= budget.quality_min

\* The encoder's file size does not increase when quality decreases.
MonotoneEnc == \A a, b \in DOMAIN enc : a <= b => enc[a] <= enc[b]

LastTrial == trials[Len(trials)]

\* C1: when the encoder is monotone and encoding at quality_min fits max_bytes
\* (the budget is achievable at the floor), the returned size is at most max_bytes.
C1_AchievableBudgetMet ==
    (encPc = "done" /\ StartAtLeastMin /\ MonotoneEnc
        /\ enc[budget.quality_min] <= MaxBytes(budget.max_kb))
    => result.size <= MaxBytes(budget.max_kb)

\* C2: when the loop exits because q fell below quality_min, the last trial on
\* disk was encoded at exactly quality_min and the returned quality is quality_min
\* (35 for the default budget).
C2_FloorExitAtQualityMin ==
    (encPc = "done" /\ result.exit = "floor" /\ StartAtLeastMin)
    => /\ disk.quality = budget.quality_min
       /\ result.quality = budget.quality_min
       /\ LastTrial.quality = budget.quality_min

\* C3: whenever the call returns (quality, size) with quality_start >= quality_min,
\* the file at out_path is the most recent write, that write was made at the
\* returned quality, and the returned size is the size of that file, on the
\* fitting exit and on the floor exit alike.
C3_ResultDescribesDisk ==
    (encPc = "done" /\ StartAtLeastMin)
    => /\ trials # <<>>
       /\ disk.trial = Len(trials)
       /\ disk.quality = LastTrial.quality
       /\ disk.size = LastTrial.size
       /\ result.quality = disk.quality
       /\ result.size = disk.size
       /\ result.size = enc[result.quality]

\* C3's case: the floor exit after several overwritten trials.
C3_Witness ==
    /\ encPc = "done"
    /\ StartAtLeastMin
    /\ result.exit = "floor"
    /\ Len(trials) >= 2

\* C4: trials are made at quality_start, quality_start - quality_step, ... in
\* strictly decreasing order, every trial before the last produced a file larger
\* than max_bytes, and a fitting return describes the last trial made.
C4_ScanOrder ==
    StartAtLeastMin
    => /\ \A i \in 1..Len(trials) :
            /\ trials[i].quality = budget.quality_start - (i - 1) * budget.quality_step
            /\ trials[i].size = enc[trials[i].quality]
            /\ i > 1 => trials[i].quality < trials[i - 1].quality
            /\ i < Len(trials) => trials[i].size > MaxBytes(budget.max_kb)
       /\ result.exit = "fit"
            => /\ trials # <<>>
               /\ result.quality = LastTrial.quality
               /\ LastTrial.size <= MaxBytes(budget.max_kb)
       /\ (encPc = "loop" /\ trials # <<>>) => LastTrial.size > MaxBytes(budget.max_kb)

\* C4's case: a fitting return after at least two rejected trials, the fitting
\* file exactly at the ceiling.
C4_Witness ==
    /\ encPc = "done"
    /\ result.exit = "fit"
    /\ Len(trials) >= 3
    /\ result.size = MaxBytes(budget.max_kb)

\* floor((quality_start - quality_min) / quality_step) + 1
TrialBound == (budget.quality_start - budget.quality_min) \div budget.quality_step + 1

\* C9: the call terminates, having made at most
\* floor((quality_start - quality_min) / quality_step) + 1 trials when
\* quality_start >= quality_min, and q strictly decreases on every failed trial.
C9_Termination ==
    /\ [](StartAtLeastMin => Len(trials) <= TrialBound)
    /\ <>(encPc # "loop")
    /\ [][(encPc = "loop" /\ encPc' = "loop" /\ trials' # trials) => q' < q]_vars

\* C9's case: the budget is never met and the bound is attained.
C9_Witness ==
    /\ encPc = "done"
    /\ result.exit = "floor"
    /\ Len(trials) = TrialBound
    /\ Len(trials) >= 3

(***************************************************************************)
(* The size fitter: resize_to_fit.                                         *)
(*                                                                         *)
(* The code computes src_ratio = src_w / src_h as an IEEE double (53-bit    *)
(* significand, round to nearest, ties to even), then target_w / src_ratio  *)
(* or target_h * src_ratio as a second double, and hands that double to     *)
(* Python's round (half to even). The model computes the same value with    *)
(* integers: src_ratio is the exact fraction plus a rounding error that is  *)
(* kept as an integer numerator (SrcRatioErr), and the second operation is  *)
(* followed through that error. The second double differs from the exact    *)
(* quotient by less than 2^-20 for dimensions below 2^15, so round() can    *)
(* only leave the exact quotient's nearest integer when the exact quotient  *)
(* is k + 1/2; that is the case RoundMul and RoundDiv decide bit-exactly.   *)
(* Dimensions are below 2^15 (products stay inside TLC's integers).         *)
(***************************************************************************)
Modes == {"cover", "contain", "exact"}

\* Python's round on the exact fraction n / d, d > 0: to the nearest integer,
\* a half to the even one.
RoundHalfEven(n, d) ==
    LET lo == n \div d
        r == n % d
    IN  IF 2 * r > d \/ (2 * r = d /\ lo % 2 = 1) THEN lo + 1 ELSE lo

RECURSIVE Pow2(_)
Pow2(j) == IF j = 0 THEN 1 ELSE 2 * Pow2(j - 1)

\* 2^s mod m
RECURSIVE Pow2Mod(_, _)
Pow2Mod(s, m) == IF s = 0 THEN 1 % m ELSE (2 * Pow2Mod(s - 1, m)) % m

\* The binary exponent of the double nearest n / d (n, d > 0): the largest e
\* with 2^e <= n / d.
RECURSIVE FloorLog2(_, _)
FloorLog2(n, d) ==
    IF n >= 2 * d THEN FloorLog2(n, 2 * d) + 1
    ELSE IF n < d THEN FloorLog2(2 * n, d) - 1
    ELSE 0

\* src_ratio = src_w / src_h: the exponent of the double.
SrcRatioExp(src_w, src_h) == FloorLog2(src_w, src_h)

\* src_ratio = src_w / src_h: the rounding error of the double, as the integer
\* delta with src_ratio = src_w / src_h + delta / (src_h * 2^s), s = 52 - exponent.
\* The significand is src_w * 2^s / src_h rounded to the nearest integer; rem
\* is what the division leaves. (A remainder of exactly half of src_h does not
\* occur: such a quotient is a dyadic fraction and divides exactly.)
SrcRatioErr(src_w, src_h) ==
    LET s == 52 - SrcRatioExp(src_w, src_h)
        rem == ((src_w % src_h) * Pow2Mod(s, src_h)) % src_h
    IN  IF 2 * rem < src_h THEN 0 - rem ELSE src_h - rem

\* n / d = k + 1/2 for an integer k (n >= 0, d > 0)
IsHalf(n, d) == (2 * n) % d = 0 /\ ((2 * n) \div d) % 2 = 1

\* The sign of a - b * 2^j, for a, b >= 0 and any integer j.
ScaledCmp(a, b, j) ==
    IF j >= 0
    THEN LET hi == a \div Pow2(j)
             lo == a % Pow2(j)
         IN  IF hi < b THEN -1 ELSE IF hi = b /\ lo = 0 THEN 0 ELSE 1
    ELSE LET hi == b \div Pow2(0 - j)
             lo == b % Pow2(0 - j)
         IN  IF a > hi THEN 1 ELSE IF a = hi /\ lo = 0 THEN 0 ELSE -1

\* round(t * src_ratio). The exact product is t * src_w / src_h + eps with
\* eps = t * delta / (src_h * 2^s). Off a half, round() gives the nearest integer
\* of the exact fraction. On a half k + 1/2 (a double with an even
\* significand), the product rounds to the double k + 1/2 when |eps| is at most
\* half the gap to the neighbouring double (2^(e-52) for e the exponent of
\* k + 1/2; half of that below 1/2, a power of two), and round() goes to the
\* even side; otherwise the double lies on the side of eps and round() follows.
RECURSIVE RoundMul(_, _, _)
RoundMul(t, src_w, src_h) ==
    IF t = 0 THEN 0
    ELSE IF t < 0 THEN 0 - RoundMul(0 - t, src_w, src_h)
    ELSE LET delta == SrcRatioErr(src_w, src_h)
             absdelta == IF delta < 0 THEN 0 - delta ELSE delta
             k == (t * src_w) \div src_h
             e == FloorLog2(2 * k + 1, 2)
             gaps == IF k = 0 /\ delta < 0 THEN 4 ELSE 2
         IN  IF ~IsHalf(t * src_w, src_h) \/ delta = 0
             THEN RoundHalfEven(t * src_w, src_h)
             ELSE IF ScaledCmp(gaps * t * absdelta, src_h, e - SrcRatioExp(src_w, src_h)) <= 0
             THEN RoundHalfEven(t * src_w, src_h)
             ELSE IF delta > 0 THEN k + 1 ELSE k

\* round(t / src_ratio). With src_ratio = (src_w / src_h) * (1 + d),
\* d = delta / (src_w * 2^s), the exact quotient is (t * src_h / src_w) / (1 + d):
\* it lies below the exact fraction when delta > 0 and above it when delta < 0.
\* On a half k + 1/2 it rounds to the double k + 1/2 when
\* (2k + 1) * |delta| <= src_w * 2^(e - exponent) + delta * 2^(e - 52), whose last
\* term is below every difference of the other two and so only breaks their tie.
RECURSIVE RoundDiv(_, _, _)
RoundDiv(t, src_w, src_h) ==
    IF t = 0 THEN 0
    ELSE IF t < 0 THEN 0 - RoundDiv(0 - t, src_w, src_h)
    ELSE LET delta == SrcRatioErr(src_w, src_h)
             absdelta == IF delta < 0 THEN 0 - delta ELSE delta
             k == (t * src_h) \div src_w
             e == FloorLog2(2 * k + 1, 2)
             gaps == IF k = 0 /\ delta > 0 THEN 2 ELSE 1
             c == ScaledCmp(gaps * (2 * k + 1) * absdelta, src_w, e - SrcRatioExp(src_w, src_h))
         IN  IF ~IsHalf(t * src_h, src_w) \/ delta = 0
             THEN RoundHalfEven(t * src_h, src_w)
             ELSE IF c < 0 \/ (c = 0 /\ delta > 0)
             THEN RoundHalfEven(t * src_h, src_w)
             ELSE IF delta > 0 THEN k ELSE k + 1

\* src_ratio > tgt_ratio, for src_h > 0 and target_h # 0. Two different
\* fractions of integers below 2^15 differ by more than 2^-30 and round to
\* different doubles, so the doubles compare as the fractions do.
RatioGreater(src_w, src_h, target_w, target_h) ==
    IF target_h > 0 THEN src_w * target_h > target_w * src_h
    ELSE src_w * target_h < target_w * src_h

\* contain, src_ratio > tgt_ratio: new_w = target_w, new_h = round(target_w / src_ratio)
ContainWide(src_w, src_h, target_w, target_h) ==
    <<target_w, RoundDiv(target_w, src_w, src_h)>>

\* contain, otherwise: new_h = target_h, new_w = round(target_h * src_ratio)
ContainTallMutInverted(src_w, src_h, target_w, target_h) ==
    <<RoundDiv(target_h, src_w, src_h), target_h>>
ContainTall(src_w, src_h, target_w, target_h) ==
    <<RoundMul(target_h, src_w, src_h), target_h>>

\* cover, src_ratio > tgt_ratio: new_h = target_h, new_w = round(target_h * src_ratio)
CoverWide(src_w, src_h, target_w, target_h) ==
    <<RoundMul(target_h, src_w, src_h), target_h>>

\* cover, otherwise: new_w = target_w, new_h = round(target_w / src_ratio)
CoverTall(src_w, src_h, target_w, target_h) ==
    <<target_w, RoundDiv(target_w, src_w, src_h)>>

FitError(kind, new_w, new_h) ==
    [status |-> kind, new_w |-> new_w, new_h |-> new_h, left |-> 0, top |-> 0,
     out_w |-> 0, out_h |-> 0]

\* mode == "exact": img.resize((target_w, target_h)); Pillow's resize raises
\* ValueError("height and width must be > 0") for a dimension below 1.
FitExact(target_w, target_h) ==
    IF target_w < 1 \/ target_h < 1
    THEN FitError("ValueError", target_w, target_h)
    ELSE [status |-> "ok", new_w |-> target_w, new_h |-> target_h, left |-> 0, top |-> 0,
          out_w |-> target_w, out_h |-> target_h]

\* mode == "contain": resize to (new_w, new_h), paste centered on a black canvas.
\* Image.new raises ValueError for a negative canvas dimension.
FitContain(src_w, src_h, target_w, target_h) ==
    LET new == IF RatioGreater(src_w, src_h, target_w, target_h)
               THEN ContainWide(src_w, src_h, target_w, target_h)
               ELSE ContainTall(src_w, src_h, target_w, target_h)
    IN  IF new[1] < 1 \/ new[2] < 1 \/ target_w < 0 \/ target_h < 0
        THEN FitError("ValueError", new[1], new[2])
        ELSE [status |-> "ok", new_w |-> new[1], new_h |-> new[2],
              left |-> (target_w - new[1]) \div 2, top |-> (target_h - new[2]) \div 2,
              out_w |-> target_w, out_h |-> target_h]

\* mode == "cover": resize to (new_w, new_h), crop the centered window. A window
\* of no or negative width or height is left to the Pillow version at hand
\* (older ones return an image, newer ones raise): status "unspecified".
FitCover(src_w, src_h, target_w, target_h) ==
    LET new == IF RatioGreater(src_w, src_h, target_w, target_h)
               THEN CoverWide(src_w, src_h, target_w, target_h)
               ELSE CoverTall(src_w, src_h, target_w, target_h)
    IN  IF new[1] < 1 \/ new[2] < 1
        THEN FitError("ValueError", new[1], new[2])
        ELSE IF target_w < 1 \/ target_h < 1
        THEN FitError("unspecified", new[1], new[2])
        ELSE [status |-> "ok", new_w |-> new[1], new_h |-> new[2],
              left |-> (new[1] - target_w) \div 2, top |-> (new[2] - target_h) \div 2,
              out_w |-> target_w, out_h |-> target_h]

\* resize_to_fit(img, size, mode), for a source that is src_w x src_h pixels,
\* both >= 1, after exif_transpose has applied its orientation tag.
\* The ratios are computed before the mode is compared with "contain" and
\* "cover": a target height of 0 raises ZeroDivisionError for every mode but exact.
ResizeToFit(src_w, src_h, target_w, target_h, mode) ==
    IF mode = "exact" THEN FitExact(target_w, target_h)
    ELSE IF target_h = 0 THEN FitError("ZeroDivisionError", 0, 0)
    ELSE IF mode = "contain" THEN FitContain(src_w, src_h, target_w, target_h)
    ELSE IF mode = "cover" THEN FitCover(src_w, src_h, target_w, target_h)
    ELSE FitError("ValueError", 0, 0)

\* The colour of pixel (x, y) of contain's canvas: the pasted image inside the
\* pasted region, the canvas's black fill elsewhere.
CanvasPixel(out, x, y) ==
    IF /\ out.left <= x /\ x < out.left + out.new_w
       /\ out.top <= y /\ y < out.top + out.new_h
    THEN "image" ELSE "black"

\* The worked examples of the specification: source 1000x500 and 800x600 into 640x480.
ExampleFits ==
    {[src_w |-> 1000, src_h |-> 500, target_w |-> 640, target_h |-> 480, mode |-> m] : m \in Modes}
    \cup {[src_w |-> 800, src_h |-> 600, target_w |-> 640, target_h |-> 480, mode |-> m] : m \in Modes}

\* Sources and targets whose exact quotient is k + 1/2 while src_ratio is not
\* exact: the double handed to round() lies off the half.
RoundingFits ==
    {[src_w |-> f[1], src_h |-> f[2], target_w |-> f[3], target_h |-> f[4], mode |-> m] :
        f \in {<<18, 7, 9, 4>>, <<15, 22, 8, 11>>, <<17, 14, 1, 21>>, <<18, 7, 9, 1>>,
                <<128, 49, 320, 240>>, <<25, 48, 160, 120>>, <<97, 48, 160, 120>>,
                <<64, 49, 160, 120>>, <<1182, 1152, 640, 480>>, <<1280, 1269, 640, 480>>},
        m \in Modes}

FitInit ==
    /\ fitIn \in [src_w : 1..MaxDim, src_h : 1..MaxDim, target_w : 1..MaxDim,
                  target_h : 1..MaxDim, mode : Modes \cup {"stretch"}]
                 \cup ExampleFits \cup RoundingFits
    /\ fitPc = "call"
    /\ fitOut = NoFitOut
    /\ EncIdle
    /\ RunIdle

CallResizeToFit ==
    /\ fitPc = "call"
    /\ fitOut' = ResizeToFit(fitIn.src_w, fitIn.src_h, fitIn.target_w, fitIn.target_h, fitIn.mode)
    /\ fitPc' = "done"
    /\ UNCHANGED <<fitIn, encVars, runVars>>

FitNext == CallResizeToFit

FitSpec == FitInit /\ [][FitNext]_vars

(***************************************************************************)
(* Claims about the size fitter.                                           *)
(***************************************************************************)
SameRatio == fitIn.src_w * fitIn.target_h = fitIn.src_h * fitIn.target_w

\* C5: for every source and target of positive dimensions and every mode of
\* cover, contain and exact, resize_to_fit returns a raster of exactly
\* (target_w, target_h), and no rounded resize dimension is zero.
C5_OutputSizeExact ==
    (fitPc = "done" /\ fitIn.mode \in Modes)
    => /\ fitOut.status = "ok"
       /\ fitOut.out_w = fitIn.target_w
       /\ fitOut.out_h = fitIn.target_h
       /\ fitOut.new_w >= 1
       /\ fitOut.new_h >= 1

\* C7: when src_w * target_h = src_h * target_w, contain and cover both resize
\* to exactly (target_w, target_h), at offset (0, 0), so nothing is padded and
\* nothing is cropped, and the branch not taken would have given the same size.
C7_TieBreak ==
    (fitPc = "done" /\ fitIn.mode \in {"contain", "cover"} /\ SameRatio)
    => /\ fitOut.status = "ok"
       /\ fitOut.new_w = fitIn.target_w
       /\ fitOut.new_h = fitIn.target_h
       /\ fitOut.left = 0
       /\ fitOut.top = 0
       /\ fitOut.out_w = fitIn.target_w
       /\ fitOut.out_h = fitIn.target_h
       /\ ContainWide(fitIn.src_w, fitIn.src_h, fitIn.target_w, fitIn.target_h)
            = ContainTall(fitIn.src_w, fitIn.src_h, fitIn.target_w, fitIn.target_h)
       /\ CoverWide(fitIn.src_w, fitIn.src_h, fitIn.target_w, fitIn.target_h)
            = CoverTall(fitIn.src_w, fitIn.src_h, fitIn.target_w, fitIn.target_h)

\* C7's case: contain on a source of the target's aspect ratio, not square and
\* not of the target's size.
C7_Witness ==
    /\ fitPc = "done"
    /\ fitIn.mode = "contain"
    /\ SameRatio
    /\ fitIn.src_w # fitIn.src_h
    /\ fitIn.src_w # fitIn.target_w
    /\ fitOut.status = "ok"

\* One dimension is the target's and the other is within one pixel of the exact
\* aspect-preserving value: |new_h - target_w * src_h / src_w| <= 1, or
\* |new_w - target_h * src_w / src_h| <= 1.
WithinOnePixel ==
    \/ /\ fitOut.new_w = fitIn.target_w
       /\ (fitOut.new_h - 1) * fitIn.src_w <= fitIn.target_w * fitIn.src_h
       /\ fitIn.target_w * fitIn.src_h <= (fitOut.new_h + 1) * fitIn.src_w
    \/ /\ fitOut.new_h = fitIn.target_h
       /\ (fitOut.new_w - 1) * fitIn.src_h <= fitIn.target_h * fitIn.src_w
       /\ fitIn.target_h * fitIn.src_w <= (fitOut.new_w + 1) * fitIn.src_h

\* The geometry of contain's canvas, as far as it is computed.
ContainGeometry ==
    /\ fitOut.new_w <= fitIn.target_w
    /\ fitOut.new_h <= fitIn.target_h
    /\ WithinOnePixel
    /\ (fitIn.src_w = 1000 /\ fitIn.src_h = 500 /\ fitIn.target_w = 640 /\ fitIn.target_h = 480)
        => (fitOut.new_w = 640 /\ fitOut.new_h = 320)

\* The canvas contain returns: where the region is pasted and what surrounds it.
ContainCanvas ==
    /\ fitOut.out_w = fitIn.target_w
    /\ fitOut.out_h = fitIn.target_h
    /\ fitOut.left = (fitIn.target_w - fitOut.new_w) \div 2
    /\ fitOut.top = (fitIn.target_h - fitOut.new_h) \div 2
    /\ LET right == fitIn.target_w - fitOut.new_w - fitOut.left
           bottom == fitIn.target_h - fitOut.new_h - fitOut.top
       IN  /\ right - fitOut.left \in {0, 1}
           /\ bottom - fitOut.top \in {0, 1}
    /\ \A x \in 0..(fitIn.target_w - 1), y \in 0..(fitIn.target_h - 1) :
          CanvasPixel(fitOut, x, y) = "black"
          <=> \/ x < fitOut.left \/ x >= fitOut.left + fitOut.new_w
              \/ y < fitOut.top \/ y >= fitOut.top + fitOut.new_h
    /\ (fitIn.src_w = 1000 /\ fitIn.src_h = 500 /\ fitIn.target_w = 640 /\ fitIn.target_h = 480)
        => (fitOut.left = 0 /\ fitOut.top = 80)

\* C8: for contain and every source and target of positive dimensions, the
\* resized region fits inside the frame with one dimension equal to the
\* target's and the other within one pixel of the exact aspect-preserving
\* value, it is pasted at the floor-centered offset, opposite bars differ by at
\* most one pixel, and every canvas pixel outside the region is black.
C8_ContainGeometry ==
    (fitPc = "done" /\ fitIn.mode = "contain")
    => /\ fitOut.status = "ok"
       /\ ContainGeometry
       /\ ContainCanvas

\* What holds of contain in every case: the computed region's geometry always,
\* the canvas whenever one is returned.
ContainGeometryWhenReturned ==
    (fitPc = "done" /\ fitIn.mode = "contain")
    => /\ ContainGeometry
       /\ fitOut.status = "ok" => ContainCanvas
       /\ fitOut.status # "ok" => (fitOut.new_w = 0 \/ fitOut.new_h = 0)

(***************************************************************************)
(* Strings. A string is a sequence of one-character strings, so that       *)
(* lower(), split(), strip(), int() and the order of names are computed.   *)
(***************************************************************************)
\* The code point of a character.
CharCode(c) ==
    CASE c = " " -> 32 [] c = "+" -> 43 [] c = "-" -> 45 [] c = "." -> 46
      [] c = "0" -> 48 [] c = "1" -> 49 [] c = "2" -> 50 [] c = "3" -> 51
      [] c = "4" -> 52 [] c = "5" -> 53 [] c = "6" -> 54 [] c = "7" -> 55
      [] c = "8" -> 56 [] c = "9" -> 57
      [] c = "G" -> 71 [] c = "J" -> 74 [] c = "P" -> 80 [] c = "X" -> 88
      [] c = "_" -> 95 [] c = "a" -> 97 [] c = "b" -> 98 [] c = "g" -> 103
      [] c = "j" -> 106 [] c = "n" -> 110 [] c = "p" -> 112 [] c = "s" -> 115
      [] c = "t" -> 116 [] c = "x" -> 120

\* str.lower(), one character.
LowerChar(c) ==
    CASE c = "G" -> "g" [] c = "J" -> "j" [] c = "P" -> "p" [] c = "X" -> "x"
      [] OTHER -> c

\* str.lower()
Lower(s) == [i \in 1..Len(s) |-> LowerChar(s[i])]

\* str.split(sep), sep one character
RECURSIVE Split(_, _)
Split(s, sep) ==
    IF \E i \in 1..Len(s) : s[i] = sep
    THEN LET i == CHOOSE i \in 1..Len(s) : s[i] = sep /\ \A j \in 1..(i - 1) : s[j] # sep
         IN  <<SubSeq(s, 1, i - 1)>> \o Split(SubSeq(s, i + 1, Len(s)), sep)
    ELSE <<s>>

\* str.strip()
RECURSIVE Strip(_)
Strip(s) ==
    IF s = <<>> THEN s
    ELSE IF Head(s) = " " THEN Strip(Tail(s))
    ELSE IF s[Len(s)] = " " THEN Strip(SubSeq(s, 1, Len(s) - 1))
    ELSE s

DigitChars == {"0", "1", "2", "3", "4", "5", "6", "7", "8", "9"}
DigitValue(c) == CharCode(c) - CharCode("0")

\* The value of a string of digits and underscores: the underscores are skipped.
RECURSIVE DigitsValue(_)
DigitsValue(s) ==
    IF s = <<>> THEN 0
    ELSE IF s[Len(s)] = "_" THEN DigitsValue(SubSeq(s, 1, Len(s) - 1))
    ELSE 10 * DigitsValue(SubSeq(s, 1, Len(s) - 1)) + DigitValue(s[Len(s)])

\* Whether int(s) succeeds: surrounding blanks, an optional sign, then digits,
\* with single underscores allowed between two digits.
IsInt(s) ==
    LET t == Strip(s)
        d == IF t # <<>> /\ Head(t) \in {"-", "+"} THEN Tail(t) ELSE t
    IN  /\ d # <<>>
        /\ \A i \in 1..Len(d) : d[i] \in DigitChars \cup {"_"}
        /\ d[1] \in DigitChars
        /\ d[Len(d)] \in DigitChars
        /\ \A i \in 1..(Len(d) - 1) : ~(d[i] = "_" /\ d[i + 1] = "_")

\* int(s), where it succeeds
IntOf(s) ==
    LET t == Strip(s)
    IN  IF Head(t) = "-" THEN 0 - DigitsValue(Tail(t))
        ELSE IF Head(t) = "+" THEN DigitsValue(Tail(t))
        ELSE DigitsValue(t)

\* parse_size(s): [ok, size]. ok is FALSE where the code raises ArgumentTypeError.
ParseSize(s) ==
    LET parts == Split(Lower(s), "x")
    IN  IF Len(parts) = 2 /\ IsInt(parts[1]) /\ IsInt(parts[2])
        THEN [ok |-> TRUE, size |-> <<IntOf(parts[1]), IntOf(parts[2])>>]
        ELSE [ok |-> FALSE, size |-> <<0, 0>>]

\* The index of the last "." of a name, 0 when it has none.
LastDot(name) ==
    IF \E i \in 1..Len(name) : name[i] = "."
    THEN CHOOSE i \in 1..Len(name) : name[i] = "." /\ \A j \in (i + 1)..Len(name) : name[j] # "."
    ELSE 0

\* pathlib: a name has a suffix when its last "." is neither its first nor its
\* last character.
HasSuffix(name) == 1 < LastDot(name) /\ LastDot(name) < Len(name)

\* Path.suffix
Suffix(name) == IF HasSuffix(name) THEN SubSeq(name, LastDot(name), Len(name)) ELSE <<>>

\* Path.stem
Stem(name) == IF HasSuffix(name) THEN SubSeq(name, 1, LastDot(name) - 1) ELSE name

ImageSuffixes ==
    {<<".", "j", "p", "g">>, <<".", "j", "p", "e", "g">>, <<".", "p", "n", "g">>,
     <<".", "b", "m", "p">>, <<".", "t", "i", "f">>, <<".", "t", "i", "f", "f">>,
     <<".", "w", "e", "b", "p">>}

\* is_image_file(p)
IsImageFile(name) == Lower(Suffix(name)) \in ImageSuffixes

\* build_output_name(in_path, prefix, suffix)
BuildOutputName(name, prefix, suffix) ==
    LET pre == Strip(prefix)
        suf == Strip(suffix)
        n1 == IF pre # <<>> THEN pre \o <<"_">> \o Stem(name) ELSE Stem(name)
        n2 == IF suf # <<>> THEN n1 \o <<"_">> \o suf ELSE n1
    IN  n2 \o <<".", "j", "p", "g">>

\* a < b as Python compares two strings: by code point, a proper prefix first.
NameLess(a, b) ==
    \E i \in 1..(Len(b)) :
        /\ \A j \in 1..(i - 1) : j <= Len(a) /\ a[j] = b[j]
        /\ \/ i = Len(a) + 1
           \/ i <= Len(a) /\ CharCode(a[i]) < CharCode(b[i])

\* sorted(names)
RECURSIVE SortNamesMutDescending(_)
SortNamesMutDescending(S) ==
    IF S = {} THEN <<>>
    ELSE LET hi == CHOOSE n \in S : \A m \in S \ {n} : NameLess(m, n)
         IN  <<hi>> \o SortNamesMutDescending(S \ {hi})
RECURSIVE SortNames(_)
SortNames(S) ==
    IF S = {} THEN <<>>
    ELSE LET lo == CHOOSE n \in S : \A m \in S \ {n} : NameLess(n, m)
         IN  <<lo>> \o SortNames(S \ {lo})

\* [p for p in sorted(in_path.iterdir()) if p.is_file() and is_image_file(p)]
\* (every entry of the listing is a regular file)
FilterImages(names) == SelectSeq(names, IsImageFile)

(***************************************************************************)
(* The entry points main and run_convert, and process_one.                 *)
(*                                                                         *)
(* The output directory is empty when the run starts and is not the input  *)
(* directory. No watermark or caption is given, so add_watermark returns   *)
(* its input. Names are ordered as on a POSIX host (case-sensitive).       *)
(***************************************************************************)
\* --size values, as argparse hands them to parse_size (--size=VALUE).
SizeArgs ==
    {<<"2", "x", "1">>, <<"2", "X", "1">>, <<"6", "4", "0", "x", "4", "8", "0">>,
     <<"0", "x", "1">>, <<"2", "x", "0">>, <<"-", "2", "x", "1">>, <<"-", "2", "x", "-", "1">>,
     <<"2", "x">>, <<"2">>, <<>>, <<"2", "x", "1", "x", "1">>, <<"a", "x", "1">>,
     <<"2", " ", "x", " ", "1">>, <<"+", "2", "x", "1">>,
     <<"1", "_", "0", "x", "1">>, <<"2", "x", "1", "_", "0">>, <<"1", "_", "_", "0", "x", "1">>,
     <<"_", "2", "x", "1">>, <<"2", "_", "x", "1">>}

\* size tuples handed to run_convert.
SizeTuples == {<<2, 1>>, <<640, 480>>, <<0, 1>>, <<2, 0>>, <<-2, 1>>, <<-2, -1>>}

MaxKbArgs == {-1, 0, 1, DefaultMaxKb}

ModeArgs == Modes \cup {"stretch"}

NameA == <<"a">>
NameB == <<"b">>
NameAB == <<"a", ".", "b">>
ExtJpg == <<".", "j", "p", "g">>
ExtPng == <<".", "p", "n", "g">>
ExtUpperJpg == <<".", "J", "P", "G">>
ExtTxt == <<".", "t", "x", "t">>

\* The file names a listing is drawn from.
FileNames == {st \o ex : st \in {NameA, NameB, NameAB}, ex \in {ExtJpg, ExtPng, ExtUpperJpg, ExtTxt, <<>>}}

\* What may be at the input path while the configuration is explored.
FewInputs ==
    {[kind |-> "missing", names |-> {}, src |-> <<2, 1>>],
     [kind |-> "file", names |-> {NameA \o ExtJpg}, src |-> <<2, 1>>],
     [kind |-> "file", names |-> {NameA \o ExtTxt}, src |-> <<2, 1>>],
     [kind |-> "dir", names |-> {}, src |-> <<2, 1>>],
     [kind |-> "dir", names |-> {NameA \o ExtJpg, NameA \o ExtPng, NameB \o ExtTxt}, src |-> <<1, 4>>]}

\* Directories of at most MaxFiles files.
Listings == {S \in SUBSET FileNames : Cardinality(S) <= MaxFiles}

RunStart(entry) ==
    /\ runPc = (IF entry = "main" THEN "parse" ELSE "mkdir")
    /\ outDirCreated = FALSE
    /\ opened = {}
    /\ todo = <<>>
    /\ outputs = <<>>
    /\ writes = 0
    /\ err = "none"
    /\ EncIdle
    /\ FitIdle

RunInit ==
    \/ \* the command line, every configuration
       /\ cfg \in [entry : {"main"}, sizeArg : SizeArgs, max_kb : MaxKbArgs, mode : ModeArgs,
                   prefix : {<<>>}, suffix : {<<>>}]
       /\ input \in FewInputs
       /\ size = <<0, 0>>
       /\ RunStart("main")
    \/ \* run_convert, every configuration
       /\ cfg \in [entry : {"run_convert"}, sizeArg : {<<>>}, max_kb : MaxKbArgs, mode : ModeArgs,
                   prefix : {<<>>}, suffix : {<<>>}]
       /\ input \in FewInputs
       /\ size \in SizeTuples
       /\ RunStart("run_convert")
    \/ \* run_convert on a directory, every listing and naming
       /\ cfg \in [entry : {"run_convert"}, sizeArg : {<<>>}, max_kb : {DefaultMaxKb},
                   mode : {"cover", "contain"},
                   prefix : {<<>>, <<" ">>, <<"p">>}, suffix : {<<>>, <<"s", " ">>}]
       /\ input \in [kind : {"dir"}, names : Listings, src : {<<2, 1>>, <<1, 4>>}]
       /\ size = <<2, 1>>
       /\ RunStart("run_convert")

Fail(kind) ==
    /\ runPc' = "failed"
    /\ err' = kind

\* main: ap.parse_args(). argparse rejects a --size that parse_size refuses and
\* a --mode outside its choices, and exits before main does anything else.
ParseArgs ==
    /\ runPc = "parse"
    /\ LET parsed == ParseSize(cfg.sizeArg) IN
        IF parsed.ok /\ cfg.mode \in Modes
        THEN /\ size' = parsed.size
             /\ runPc' = "mkdir"
             /\ UNCHANGED err
        ELSE /\ Fail("usage")
             /\ UNCHANGED size
    /\ UNCHANGED <<cfg, input, outDirCreated, opened, todo, outputs, writes, encVars, fitVars>>

\* ensure_output_dir(out_dir)
EnsureOutputDir ==
    /\ runPc = "mkdir"
    /\ outDirCreated' = TRUE
    /\ runPc' = "dispatch"
    /\ UNCHANGED <<cfg, input, size, opened, todo, outputs, writes, err, encVars, fitVars>>

\* if in_path.is_dir(): ... elif in_path.is_file(): ... else: ...
Dispatch ==
    /\ runPc = "dispatch"
    /\ LET files == IF input.kind = "dir" THEN FilterImages(SortNames(input.names))
                    ELSE IF input.kind = "file" THEN FilterImages(SortNames(input.names))
                    ELSE <<>>
       IN  IF input.kind = "missing" THEN Fail("Input not found") /\ UNCHANGED todo
           ELSE IF files = <<>>
           THEN /\ Fail(IF input.kind = "dir" THEN "No supported image files"
                        ELSE "Unsupported image type")
                /\ UNCHANGED todo
           ELSE /\ todo' = files
                /\ runPc' = "process"
                /\ UNCHANGED err
    /\ UNCHANGED <<cfg, input, size, outDirCreated, opened, outputs, writes, encVars, fitVars>>

\* What save_jpeg_under_limit leaves in the output directory for input `name`:
\* the file is written whatever max_kb is, since the default quality_start is
\* not below the default quality_min.
WriteOutput(name) ==
    LET out_name == BuildOutputName(name, cfg.prefix, cfg.suffix)
        file == [from |-> name, nth |-> writes + 1]
    IN  /\ outputs' = [n \in DOMAIN outputs \cup {out_name} |->
                          IF n = out_name THEN file ELSE outputs[n]]
        /\ writes' = writes + 1

\* process_one(f, ...) for the next file: open, resize_to_fit, add_watermark,
\* save_jpeg_under_limit. An exception ends the run.
ProcessOne ==
    /\ runPc = "process"
    /\ todo # <<>>
    /\ LET name == Head(todo)
           fit == ResizeToFit(input.src[1], input.src[2], size[1], size[2], cfg.mode)
       IN  /\ opened' = opened \cup {name}
           /\ \/ \* the file does not decode
                 /\ Fail("DecodeFailure")
                 /\ UNCHANGED <<todo, outputs, writes>>
              \/ \* resize_to_fit raises
                 /\ fit.status \notin {"ok", "unspecified"}
                 /\ Fail(fit.status)
                 /\ UNCHANGED <<todo, outputs, writes>>
              \/ \* an empty or negative crop window, and this Pillow raises
                 /\ fit.status = "unspecified"
                 /\ Fail("ValueError")
                 /\ UNCHANGED <<todo, outputs, writes>>
              \/ \* an empty crop window, and this Pillow raises in img.save
                 \* after it has created the output file
                 /\ fit.status = "unspecified"
                 /\ WriteOutput(name)
                 /\ Fail("ValueError")
                 /\ UNCHANGED todo
              \/ \* the encoder writes the output file
                 /\ fit.status \in {"ok", "unspecified"}
                 /\ WriteOutput(name)
                 /\ todo' = Tail(todo)
                 /\ runPc' = (IF Tail(todo) = <<>> THEN "done" ELSE "process")
                 /\ UNCHANGED err
    /\ UNCHANGED <<cfg, input, size, outDirCreated, encVars, fitVars>>

RunNext == ParseArgs \/ EnsureOutputDir \/ Dispatch \/ ProcessOne

RunSpec == RunInit /\ [][RunNext]_vars

(***************************************************************************)
(* Claims about the entry points.                                          *)
(***************************************************************************)
\* A malformed size string, a non-positive width or height, a non-positive
\* max-kb, or an unrecognized mode.
InvalidConfig ==
    \/ /\ cfg.entry = "main"
       /\ LET parsed == ParseSize(cfg.sizeArg)
          IN  ~parsed.ok \/ parsed.size[1] <= 0 \/ parsed.size[2] <= 0
    \/ /\ cfg.entry = "run_convert"
       /\ (size[1] <= 0 \/ size[2] <= 0)
    \/ cfg.max_kb <= 0
    \/ cfg.mode \notin Modes

\* C6: under an invalid configuration, main and run_convert alike fail before
\* the output directory is created, before any input file is opened and before
\* any output file is written, and the run does not complete.
C6_InvalidConfigRejectedFirst ==
    (runPc # "idle" /\ InvalidConfig)
    => /\ ~outDirCreated
       /\ opened = {}
       /\ DOMAIN outputs = {}
       /\ runPc # "done"

\* The supported image files of the input directory.
InputImages == {n \in input.names : IsImageFile(n)}

\* The last, in sorted order, of the supported inputs that share n's stem.
LastOfStem(n) ==
    LET same == {m \in InputImages : Stem(m) = Stem(n)}
    IN  CHOOSE m \in same : \A k \in same \ {m} : NameLess(k, m)

\* C10: after a batch run that completes, the output directory holds exactly
\* one file per distinct stem of the supported inputs, named from the stem and
\* the prefix and suffix alone, and it is the encoding of the last input, in
\* sorted name order, that has that stem; the files were processed one at a
\* time in sorted order, the earlier ones of a stem being overwritten.
C10_BatchOutputs ==
    (runPc = "done" /\ input.kind = "dir")
    => /\ DOMAIN outputs = {BuildOutputName(n, cfg.prefix, cfg.suffix) : n \in InputImages}
       /\ Cardinality(DOMAIN outputs) = Cardinality({Stem(n) : n \in InputImages})
       /\ opened = InputImages
       /\ writes = Cardinality(InputImages)
       /\ \A n \in InputImages :
            LET file == outputs[BuildOutputName(n, cfg.prefix, cfg.suffix)]
            IN  /\ file.from = LastOfStem(n)
                /\ file.nth = 1 + Cardinality({m \in InputImages : NameLess(m, file.from)})
       /\ \A n, m \in InputImages :
            (Stem(n) = Stem(m))
            <=> (BuildOutputName(n, cfg.prefix, cfg.suffix)
                    = BuildOutputName(m, cfg.prefix, cfg.suffix))

\* C10's case: a completed batch of three supported files, two of one stem.
C10_Witness ==
    /\ runPc = "done"
    /\ input.kind = "dir"
    /\ writes = 3
    /\ Cardinality(DOMAIN outputs) = 2

(***************************************************************************)
(* The three specifications as one: a behaviour is one encoder call, one   *)
(* fitter call, or one run.                                                *)
(***************************************************************************)
Init == EncInit \/ FitInit \/ RunInit

Next == EncNext \/ FitNext \/ RunNext

Spec == Init /\ [][Next]_vars

=============================================================================
